---- MODULE Spec2Model ----
(***************************************************************************)
(* Model of the encrypted-transport subsystem of the playstudy backend:    *)
(*   backend/app/core/nonce_manager.py     NonceManager                    *)
(*   backend/app/core/crypto.py            CryptoService                   *)
(*   backend/app/middleware/encryption_middleware.py  EncryptionMiddleware *)
(*                                                                         *)
(*   backend/app/core/field_encryption.py  FieldEncryption                 *)
(*   backend/app/models/topic.py           Topic                           *)
(*                                                                         *)
(* The specifications share the variables:                                 *)
(*   SpecNonce  callers of one NonceManager, the shared store and clock    *)
(*   SpecStore  SpecNonce with store_nonce and cleanup_expired             *)
(*   Spec       the middleware's dispatch over one request at a time       *)
(*   SpecTs     validate_timestamp over bounded integer inputs             *)
(*   SpecField  calls of FieldEncryption.encrypt and decrypt               *)
(*   SpecTopic  one Topic row written and read through its accessors       *)
(*   SpecCrypto CryptoService: key loading and its per-request functions   *)
(***************************************************************************)
EXTENDS Integers, Sequences, FiniteSets, TLC

\* ------------------------------------------------------------------ bounds
\* number of clock advances explored
MaxTicks == 2
\* number of concurrent callers of verify_nonce
NumCallers == 2
\* range of the integers fed to validate_timestamp in SpecTs
TsRange == 4
\* longest string (in code points) given to the field cipher
MaxStrLen == 2
\* number of distinct field-encryption keys
NumFieldKeys == 2

\* ------------------------------------------------------- program constants
DEFAULT_NONCE_TTL == 300
MAX_FALLBACK == 10000
MIN_NONCE_LEN == 10
MAX_AGE == 120
NONCE_TTL == 300
RSA_KEY_SIZE == 2048
AES_KEY_SIZE == 32
AES_IV_SIZE == 12
AES_TAG_SIZE == 16

NoTime == 0 - 1

VARIABLES
    now,             \* int(time.time())
    ticks,           \* number of clock advances so far
    redis,           \* NonceManager.redis is set (a client was injected)
    redisUp,         \* the shared store answers commands
    redisStore,      \* shared store: nonce -> expiry time, 0 when no key
    fallbackStore,   \* NonceManager._fallback_store: the modelled nonces in it
    fallbackOthers,  \* number of further (one-off) nonces in _fallback_store
    call,            \* per caller: position and arguments of a verify_nonce call
    lastAccept,      \* history: per store and nonce, time of the last acceptance
    ENCRYPTION_REQUIRED,            \* module flag of the middleware
    ENCRYPTION_REQUIRED_ENDPOINTS,  \* module list of the middleware
    cur,             \* the request being dispatched and what happened to it
    accepted,        \* history: envelopes the pipeline accepted, with the time
    vt,              \* SpecTs: inputs and result of validate_timestamp
    fernet,          \* FieldEncryption.fernet: the key of the field cipher
    topic,           \* one row of topics: its two narrative columns
    fcall,           \* the running call on the field cipher or on the row
    keys,            \* CryptoService: environment and the installed key pair
    ccall            \* the running call on CryptoService

vars == <<now, ticks, redis, redisUp, redisStore, fallbackStore, fallbackOthers,
          call, lastAccept, ENCRYPTION_REQUIRED, ENCRYPTION_REQUIRED_ENDPOINTS,
          cur, accepted, vt, fernet, topic, fcall, keys, ccall>>

fieldVars  == <<fernet, topic, fcall>>
cryptoVars == <<keys, ccall>>
unitVars   == <<vt, fieldVars, cryptoVars>>

nonceVars == <<redis, redisUp, redisStore, fallbackStore, fallbackOthers>>
pipeVars  == <<ENCRYPTION_REQUIRED, ENCRYPTION_REQUIRED_ENDPOINTS, cur, accepted>>

\* ------------------------------------------------------------------ nonces
\* the nonces presented to the service; "short" is shorter than 10 characters
GoodNonce == "abc123XYZ0"
ShortNonce == "short"
EmptyNonce == ""
Nonces == {GoodNonce, ShortNonce}

\* len(nonce)
NonceLen(n) ==
    CASE n = GoodNonce  -> 10
      [] n = ShortNonce -> 5
      [] n = EmptyNonce -> 0

Callers == 1..NumCallers
Stores == {"redis", "fallback"}

\* len(self._fallback_store)
FallbackLen(fs, fo) == Cardinality(fs) + fo

\* a key of the shared store is live until its expiry time
RedisLive(store, n, t) == store[n] > t

\* the command without nx=True: the key is overwritten and the call succeeds
RedisSetNX_Overwrite(store, n, ttl, t) ==
    [result |-> TRUE, store |-> [store EXCEPT ![n] = t + ttl]]

\* redis.set(key, "1", ex=ttl, nx=True): one atomic command
RedisSetNX(store, n, ttl, t) ==
    IF RedisLive(store, n, t)
    THEN [result |-> FALSE, store |-> store]
    ELSE [result |-> TRUE,  store |-> [store EXCEPT ![n] = t + ttl]]

\* lines 65-78 of verify_nonce: the in-memory fallback
FallbackVerify(n, fs, fo) ==
    IF n \in fs
    THEN [result |-> FALSE, fs |-> fs, fo |-> fo]
    ELSE IF FallbackLen(fs \cup {n}, fo) > MAX_FALLBACK
         THEN [result |-> TRUE, fs |-> {}, fo |-> 0]
         ELSE [result |-> TRUE, fs |-> fs \cup {n}, fo |-> fo]

\* verify_nonce that rejects when the command on the shared store raises
verify_nonce_FailClosed(n, ttl) ==
    IF n = EmptyNonce \/ NonceLen(n) < MIN_NONCE_LEN
    THEN [result |-> FALSE, via |-> "invalid",
          store |-> redisStore, fs |-> fallbackStore, fo |-> fallbackOthers]
    ELSE IF redis /\ redisUp
         THEN LET r == RedisSetNX(redisStore, n, ttl, now)
              IN  [result |-> r.result, via |-> "redis",
                   store |-> r.store, fs |-> fallbackStore, fo |-> fallbackOthers]
         ELSE IF redis
         THEN [result |-> FALSE, via |-> "fallback",
               store |-> redisStore, fs |-> fallbackStore, fo |-> fallbackOthers]
         ELSE LET f == FallbackVerify(n, fallbackStore, fallbackOthers)
              IN  [result |-> f.result, via |-> "fallback",
                   store |-> redisStore, fs |-> f.fs, fo |-> f.fo]

\* NonceManager.verify_nonce(nonce, ttl) on the current state
verify_nonce(n, ttl) ==
    IF n = EmptyNonce \/ NonceLen(n) < MIN_NONCE_LEN
    THEN [result |-> FALSE, via |-> "invalid",
          store |-> redisStore, fs |-> fallbackStore, fo |-> fallbackOthers]
    ELSE IF redis /\ redisUp
         THEN LET r == RedisSetNX(redisStore, n, ttl, now)
              IN  [result |-> r.result, via |-> "redis",
                   store |-> r.store, fs |-> fallbackStore, fo |-> fallbackOthers]
         ELSE LET f == FallbackVerify(n, fallbackStore, fallbackOthers)
              IN  [result |-> f.result, via |-> "fallback",
                   store |-> redisStore, fs |-> f.fs, fo |-> f.fo]

\* history bookkeeping: an acceptance of n by store s within the last ttl seconds
Recent(la, s, n, ttl, t) == la[s][n] # NoTime /\ t - la[s][n] < ttl

IdleCall == [pc |-> "idle", nonce |-> EmptyNonce, conc |-> FALSE,
             result |-> FALSE, via |-> "none", dupRedis |-> FALSE, dupFallback |-> FALSE]

\* ------------------------------------------------------------ environment
\* Clock and store availability are sampled while no answer is waiting to be
\* consumed: dispatch and verify_nonce read them only in their synchronous
\* part, so a change while a request waits for its handler, or while a caller
\* holds its answer, commutes with the rest of that request or call.
Quiet == cur.pc = "none" /\ \A c \in Callers : call[c].pc # "returned"

\* the clock advances by d seconds; the shared store drops its expired keys
Tick(d) ==
    /\ Quiet
    /\ ticks < MaxTicks
    /\ ticks' = ticks + 1
    /\ now' = now + d
    /\ redisStore' = [n \in Nonces |-> IF redisStore[n] > now + d THEN redisStore[n] ELSE 0]
    /\ lastAccept' = [s \in Stores |-> [n \in Nonces |->
                        IF Recent(lastAccept, s, n, NONCE_TTL, now + d)
                        THEN lastAccept[s][n] ELSE NoTime]]
    /\ UNCHANGED <<redis, redisUp, fallbackStore, fallbackOthers, call, pipeVars, unitVars>>

\* the shared store becomes unreachable: its commands raise
RedisFail ==
    /\ Quiet
    /\ redis /\ redisUp
    /\ redisUp' = FALSE
    /\ UNCHANGED <<now, ticks, redis, redisStore, fallbackStore, fallbackOthers,
                   call, lastAccept, pipeVars, unitVars>>

\* the shared store is reachable again, with the keys it held
RedisRecover ==
    /\ Quiet
    /\ redis /\ ~redisUp
    /\ redisUp' = TRUE
    /\ UNCHANGED <<now, ticks, redis, redisStore, fallbackStore, fallbackOthers,
                   call, lastAccept, pipeVars, unitVars>>

\* verify_nonce calls with one-off nonces, served by the fallback, that fill
\* the map up to its size limit (none of them exceeds it)
FallbackFill ==
    /\ Quiet
    /\ ~(redis /\ redisUp)
    /\ FallbackLen(fallbackStore, fallbackOthers) < MAX_FALLBACK
    /\ fallbackOthers' = MAX_FALLBACK - Cardinality(fallbackStore)
    /\ UNCHANGED <<now, ticks, redis, redisUp, redisStore, fallbackStore,
                   call, lastAccept, pipeVars, unitVars>>

\* ------------------------------------------------ callers of verify_nonce
\* caller y is between obtaining nonce n and running verify_nonce on it
Pending(y, n) == call[y].pc = "called" /\ call[y].nonce = n

\* a handler obtains a nonce and is about to call verify_nonce; conc records
\* that another handler is at the same point with the same nonce
Call(c, n) ==
    /\ call[c].pc = "idle"
    /\ call' = [x \in Callers |->
                  IF x = c
                  THEN [IdleCall EXCEPT !.pc = "called", !.nonce = n,
                                        !.conc = \E y \in Callers : Pending(y, n)]
                  ELSE IF Pending(x, n) THEN [call[x] EXCEPT !.conc = TRUE] ELSE call[x]]
    /\ UNCHANGED <<now, ticks, nonceVars, lastAccept, pipeVars, unitVars>>

\* the call runs: verify_nonce has no suspension point
Exec(c) ==
    /\ call[c].pc = "called"
    /\ LET n == call[c].nonce
           r == verify_nonce(n, DEFAULT_NONCE_TTL)
       IN  /\ redisStore' = r.store
           /\ fallbackStore' = r.fs
           /\ fallbackOthers' = r.fo
           /\ call' = [call EXCEPT ![c] = [@ EXCEPT !.pc = "returned",
                          !.result = r.result, !.via = r.via,
                          !.dupRedis = Recent(lastAccept, "redis", n, NONCE_TTL, now),
                          !.dupFallback = Recent(lastAccept, "fallback", n, NONCE_TTL, now)]]
           /\ lastAccept' = IF r.result
                            THEN [lastAccept EXCEPT ![r.via][n] = now]
                            ELSE lastAccept
    /\ UNCHANGED <<now, ticks, redis, redisUp, pipeVars, unitVars>>

\* the caller has consumed the answer
Return(c) ==
    /\ call[c].pc = "returned"
    /\ call' = [call EXCEPT ![c] = IdleCall]
    /\ UNCHANGED <<now, ticks, nonceVars, lastAccept, pipeVars, unitVars>>

\* NonceManager.store_nonce(nonce, ttl): SETEX on the shared store (the key
\* is written whether or not it exists); when there is no client or the
\* command raises, the nonce is put into the in-memory map, with no test of
\* the nonce and none of the size of the map. "other" is a one-off nonce;
\* of the calls with one-off nonces the first and the one that finds the
\* map full are explored.
StoreNonce(n) ==
    /\ Quiet
    /\ FallbackLen(fallbackStore, fallbackOthers) <= MAX_FALLBACK
    /\ n \notin Nonces =>
          (fallbackOthers = 0 \/ FallbackLen(fallbackStore, fallbackOthers) = MAX_FALLBACK)
    /\ IF redis /\ redisUp
       THEN /\ redisStore' = IF n \in Nonces THEN [redisStore EXCEPT ![n] = now + DEFAULT_NONCE_TTL]
                             ELSE redisStore
            /\ lastAccept' = IF n \in Nonces THEN [lastAccept EXCEPT !["redis"][n] = now]
                             ELSE lastAccept
            /\ UNCHANGED <<fallbackStore, fallbackOthers>>
       ELSE /\ fallbackStore' = IF n \in Nonces THEN fallbackStore \cup {n} ELSE fallbackStore
            /\ fallbackOthers' = IF n \in Nonces THEN fallbackOthers ELSE fallbackOthers + 1
            /\ lastAccept' = IF n \in Nonces THEN [lastAccept EXCEPT !["fallback"][n] = now]
                             ELSE lastAccept
            /\ UNCHANGED redisStore
    /\ UNCHANGED <<now, ticks, redis, redisUp, call, pipeVars, unitVars>>

\* NonceManager.cleanup_expired(): nothing with a client set; otherwise the
\* whole in-memory map is cleared
CleanupExpired ==
    /\ Quiet
    /\ ~redis
    /\ FallbackLen(fallbackStore, fallbackOthers) > 0
    /\ fallbackStore' = {}
    /\ fallbackOthers' = 0
    /\ UNCHANGED <<now, ticks, redis, redisUp, redisStore, call, lastAccept,
                   pipeVars, unitVars>>

\* ------------------------------------------------------------- requests
\* paths as sequences of pieces; a piece boundary is a place where one of the
\* configured prefixes may end, so str.startswith is the prefix order on pieces
P_healthz == <<"/health", "z">>
P_login   == <<"/api/auth/login">>
P_mentor  == <<"/api/tts/generate-mentor-content">>
P_folders == <<"/api/folders">>
Paths == {P_healthz, P_login, P_mentor, P_folders}

Methods == {"GET", "POST", "PUT", "PATCH"}

\* values of the X-Encrypted-Request header ("none": header absent)
Headers == {"true", "none"}

EXEMPT_ENDPOINTS ==
    { <<"/health">>, <<"/api/crypto/public-key">>, <<"/api/crypto/key-version">>,
      <<"/api/crypto/health">>, <<"/api/crypto/nonce-stats">>, <<"/docs">>,
      <<"/redoc">>, <<"/openapi.json">>, <<"/api/auth/login">>, <<"/api/auth/register">> }

\* the list as shipped (every entry commented out) and the list with the
\* entries the source names for it
ShippedRequiredEndpoints == {}
NamedRequiredEndpoints ==
    { <<"/api/tts/generate-mentor-content">>, <<"/api/study-sessions/create">>,
      <<"/api/study-sessions/upload">> }

\* path == prefix, in place of startswith
SamePath(path, prefix) == path = prefix

\* path.startswith(prefix)
StartsWith(path, prefix) ==
    Len(prefix) <= Len(path) /\ SubSeq(path, 1, Len(prefix)) = prefix

MatchesAny(path, prefixes) == \E e \in prefixes : StartsWith(path, e)

\* EncryptionMiddleware.is_exempt_endpoint
is_exempt_endpoint(path) == MatchesAny(path, EXEMPT_ENDPOINTS)

\* EncryptionMiddleware.requires_encryption
requires_encryption(path) == MatchesAny(path, ENCRYPTION_REQUIRED_ENDPOINTS)

\* the list without "PATCH"
IsMutating_NoPatch(m) == m \in {"POST", "PUT"}

\* request.method in ["POST", "PUT", "PATCH"]
IsMutating(m) == m \in {"POST", "PUT", "PATCH"}

\* timestamps carried by envelopes (Unix seconds on the model's clock)
Timestamps == {0, 1}

\* request bodies.  shape: "ok" a JSON object with the six required fields,
\* "missing" a JSON object whose encryptedKey is absent or empty, "badjson"
\* not JSON, "plain" an ordinary request body.  signature: absent, the empty
\* string, the HMAC of this request, or another value.  key: the wrapped key unwraps to 32
\* bytes or not.  payload: the keys of the JSON object under the ciphertext,
\* or the way its decryption fails.
Bodies ==
    [shape : {"ok", "missing", "badjson", "plain"}, timestamp : Timestamps,
     nonce : Nonces, signature : {"none", "empty", "good", "bad"}, key : {"ok", "bad"},
     payload : {"obj", "obj_meta", "badtag", "nonjson"}]

\* the envelope of Scenario B: fresh nonce, signed, correctly wrapped key
ValidEnvelope == [shape |-> "ok", timestamp |-> 0, nonce |-> GoodNonce,
                  signature |-> "good", key |-> "ok", payload |-> "obj"]
BadJsonBody == [ValidEnvelope EXCEPT !.shape = "badjson"]
PlainBody   == [ValidEnvelope EXCEPT !.shape = "plain"]

\* in how many fields a body differs from ValidEnvelope
Deviations(b) ==
    Cardinality({f \in {"timestamp", "nonce", "signature", "key", "payload"} :
                    b[f] # ValidEnvelope[f]})

\* envelopes: the valid one with up to two fields changed, the same with a
\* required field missing, and a body that is not JSON
Envelopes ==
    {b \in Bodies : b.shape = "ok" /\ Deviations(b) <= 2}
    \cup {b \in Bodies : b.shape = "missing" /\ Deviations(b) <= 1
                          /\ b.signature = "good" /\ b.key = "ok" /\ b.payload = "obj"}
    \cup {BadJsonBody}

\* envelopes sent to every path with every method
RoutedEnvelopes == {ValidEnvelope}

\* the requests presented: every path and method without the header and
\* with a routed envelope, and every envelope as a POST to two paths
Requests ==
    [path : Paths, method : Methods, hdr : {"none"}, body : {PlainBody}]
    \cup [path : Paths, method : Methods, hdr : {"true"}, body : RoutedEnvelopes]
    \cup [path : {P_folders}, method : {"POST"}, hdr : {"true"}, body : Envelopes]

\* the JSON object under the ciphertext, as the set of its top-level keys
PayloadKeys(p) == IF p = "obj_meta" THEN {"a", "_meta"} ELSE {"a"}

\* -------------------------------------------------------- CryptoService
\* the age test left out: any timestamp that is not in the future passes
validate_timestamp_NoMaxAge(timestamp, max_age, t) ==
    LET age == t - timestamp
    IN  IF age < 0 THEN FALSE ELSE TRUE

\* the age test written with >= : a timestamp exactly max_age old is refused
validate_timestamp_Strict(timestamp, max_age, t) ==
    LET age == t - timestamp
    IN  IF age < 0 THEN FALSE
        ELSE IF age >= max_age THEN FALSE
        ELSE TRUE

\* CryptoService.validate_timestamp(timestamp, max_age) at clock value t
validate_timestamp(timestamp, max_age, t) ==
    LET age == t - timestamp
    IN  IF age < 0 THEN FALSE
        ELSE IF age > max_age THEN FALSE
        ELSE TRUE

\* CryptoService.verify_signature: the recomputed HMAC equals the one given
verify_signature(signature) == signature = "good"

\* CryptoService.decrypt_aes_key: a 32-byte key, or ValueError
decrypt_aes_key(key) == IF key = "ok" THEN "key" ELSE "ValueError"

\* CryptoService.decrypt_payload: the JSON payload, or ValueError
decrypt_payload(payload) ==
    IF payload \in {"obj", "obj_meta"} THEN "payload" ELSE "ValueError"

\* ------------------------------------------------- EncryptionMiddleware
\* outcome of decrypt_request: data is the set of keys of the returned
\* object, ok tells a dict from None, raised an exception leaving the method
Outcome(ok, raised, trace, failed, data, nv) ==
    [ok |-> ok, raised |-> raised, trace |-> trace, failed |-> failed,
     data |-> data, store |-> nv.store, fs |-> nv.fs, fo |-> nv.fo, via |-> nv.via]

NoNonceCall == [result |-> FALSE, via |-> "none",
                store |-> redisStore, fs |-> fallbackStore, fo |-> fallbackOthers]

\* the except clauses of decrypt_request let the error leave the method
Except_Reraise(trace, failed, nv) == Outcome(FALSE, TRUE, trace, failed, {}, nv)

\* lines 216-224: every exception inside decrypt_request becomes None
Except(trace, failed, nv) == Outcome(FALSE, FALSE, trace, failed, {}, nv)

\* a failed check of decrypt_request: return None
ReturnNone(trace, failed, nv) == Outcome(FALSE, FALSE, trace, failed, {}, nv)

\* the signature looked at only after the key and the payload were decrypted
AfterNonce_SignatureLast(b, trace, nv) ==
    LET t5 == Append(trace, "decrypt_aes_key")
        t6 == Append(t5, "decrypt_payload")
        t4 == IF b.signature \notin {"none", "empty"} THEN Append(t6, "verify_signature") ELSE t6
        t7 == Append(t4, "strip_meta")
    IN  IF decrypt_aes_key(b.key) = "ValueError"
        THEN Except(t5, "decrypt_aes_key", nv)
        ELSE IF decrypt_payload(b.payload) = "ValueError"
        THEN Except(t6, "decrypt_payload", nv)
        ELSE IF b.signature \notin {"none", "empty"} /\ ~verify_signature(b.signature)
        THEN ReturnNone(t4, "verify_signature", nv)
        ELSE Outcome(TRUE, FALSE, t7, "none", PayloadKeys(b.payload) \ {"_meta"}, nv)

\* lines 187-214, after the nonce was accepted
AfterNonce(b, trace, nv) ==
    LET t4 == IF b.signature \notin {"none", "empty"} THEN Append(trace, "verify_signature") ELSE trace
        t5 == Append(t4, "decrypt_aes_key")
        t6 == Append(t5, "decrypt_payload")
        t7 == Append(t6, "strip_meta")
    IN  IF b.signature \notin {"none", "empty"} /\ ~verify_signature(b.signature)
        THEN ReturnNone(t4, "verify_signature", nv)
        ELSE IF decrypt_aes_key(b.key) = "ValueError"
        THEN Except(t5, "decrypt_aes_key", nv)
        ELSE IF decrypt_payload(b.payload) = "ValueError"
        THEN Except(t6, "decrypt_payload", nv)
        ELSE Outcome(TRUE, FALSE, t7, "none", PayloadKeys(b.payload) \ {"_meta"}, nv)

\* decrypt_request without the call of validate_timestamp
decrypt_request_NoTimestamp(b) ==
    LET t1 == <<"parse">>
        t3 == <<"parse", "validate_timestamp", "verify_nonce">>
    IN  IF b.shape = "badjson" THEN Except(t1, "parse", NoNonceCall)
        ELSE IF b.shape # "ok" THEN ReturnNone(t1, "parse", NoNonceCall)
        ELSE LET nv == verify_nonce(b.nonce, NONCE_TTL)
             IN  IF ~nv.result THEN ReturnNone(t3, "verify_nonce", nv)
                 ELSE AfterNonce(b, t3, nv)

\* decrypt_request with verify_nonce called before validate_timestamp
decrypt_request_NonceFirst(b) ==
    LET t1 == <<"parse">>
        t2 == <<"parse", "verify_nonce">>
        t3 == <<"parse", "verify_nonce", "validate_timestamp">>
    IN  IF b.shape = "badjson" THEN Except(t1, "parse", NoNonceCall)
        ELSE IF b.shape # "ok" THEN ReturnNone(t1, "parse", NoNonceCall)
        ELSE LET nv == verify_nonce(b.nonce, NONCE_TTL)
             IN  IF ~nv.result THEN ReturnNone(t2, "verify_nonce", nv)
                 ELSE IF ~validate_timestamp(b.timestamp, MAX_AGE, now)
                 THEN ReturnNone(t3, "validate_timestamp", nv)
                 ELSE AfterNonce(b, t3, nv)

\* EncryptionMiddleware.decrypt_request on body b
decrypt_request(b) ==
    LET t1 == <<"parse">>
        t2 == <<"parse", "validate_timestamp">>
        t3 == <<"parse", "validate_timestamp", "verify_nonce">>
    IN  IF b.shape = "badjson" THEN Except(t1, "parse", NoNonceCall)
        ELSE IF b.shape # "ok" THEN ReturnNone(t1, "parse", NoNonceCall)
        ELSE IF ~validate_timestamp(b.timestamp, MAX_AGE, now)
        THEN ReturnNone(t2, "validate_timestamp", NoNonceCall)
        ELSE LET nv == verify_nonce(b.nonce, NONCE_TTL)
             IN  IF ~nv.result THEN ReturnNone(t3, "verify_nonce", nv)
                 ELSE AfterNonce(b, t3, nv)

\* the responses the middleware builds itself
Resp(status, detail, code) == [status |-> status, detail |-> detail, error_code |-> code]
NoResp == Resp(0, "none", "none")

\* what dispatch does with request r up to call_next or to its own response
\*   forwarded : call_next(request) is reached
\*   resp      : the JSONResponse returned instead
\*   state     : request.state.decrypted_data ("unset" or the payload's keys)
DispatchResult(r) ==
    LET none == Outcome(FALSE, FALSE, <<>>, "none", {}, NoNonceCall)
        requires == requires_encryption(r.path)
        is_encrypted == r.hdr = "true"
        d == IF is_encrypted THEN decrypt_request(r.body) ELSE none
        Out(fwd, resp, exempt, oc, set) ==
            [forwarded |-> fwd, resp |-> resp, exempt |-> exempt, requires |-> requires,
             trace |-> oc.trace, failed |-> oc.failed, decrypted |-> oc.ok,
             via |-> oc.via, store |-> oc.store, fs |-> oc.fs, fo |-> oc.fo,
             state |-> IF set THEN oc.data ELSE {"unset"}]
    IN  IF is_exempt_endpoint(r.path)
        THEN Out(TRUE, NoResp, TRUE, none, FALSE)
        ELSE IF is_encrypted /\ d.raised
        THEN Out(FALSE, Resp(400, "Invalid encrypted request", "none"), FALSE, d, FALSE)
        ELSE IF is_encrypted /\ ~d.ok
        THEN Out(FALSE, Resp(400, "Request decryption failed", "none"), FALSE, d, FALSE)
        ELSE IF ~is_encrypted /\ requires /\ IsMutating(r.method)
        THEN Out(FALSE, Resp(403, "This endpoint requires encrypted requests for data protection",
                             "ENCRYPTION_REQUIRED"), FALSE, d, FALSE)
        ELSE IF ~is_encrypted /\ IsMutating(r.method)
        THEN Out(TRUE, NoResp, FALSE, d, FALSE)
        ELSE IF ENCRYPTION_REQUIRED /\ IsMutating(r.method)
        THEN Out(FALSE, Resp(403, "Encrypted requests required", "none"), FALSE, d, is_encrypted)
        ELSE Out(TRUE, NoResp, FALSE, d, is_encrypted)

NoAccept == [at |-> NoTime]
NoRequest == [pc |-> "none"]

\* a request arrives and dispatch runs up to call_next or to its own response
Dispatch(r) ==
    /\ cur.pc = "none"
    /\ LET o == DispatchResult(r)
           replay == IF accepted # NoAccept /\ accepted.req = r
                     THEN (IF now - accepted.at < NONCE_TTL THEN "within" ELSE "after")
                     ELSE "no"
       IN  /\ cur' = [pc |-> IF o.forwarded THEN "handler" ELSE "responded",
                      req |-> r, forwarded |-> o.forwarded, resp |-> o.resp,
                      exempt |-> o.exempt, requires |-> o.requires,
                      trace |-> o.trace, failed |-> o.failed,
                      decrypted |-> o.decrypted, via |-> o.via, state |-> o.state,
                      replay |-> replay, encrypted |-> FALSE, key |-> "none",
                      drained |-> FALSE]
           /\ redisStore' = o.store
           /\ fallbackStore' = o.fs
           /\ fallbackOthers' = o.fo
           /\ IF o.decrypted /\ accepted = NoAccept
              THEN \E watch \in BOOLEAN :
                      accepted' = IF watch THEN [at |-> now, req |-> r] ELSE accepted
              ELSE UNCHANGED accepted
    /\ UNCHANGED <<now, ticks, redis, redisUp, call, lastAccept,
                   ENCRYPTION_REQUIRED, ENCRYPTION_REQUIRED_ENDPOINTS, unitVars>>

\* the kinds of response a route handler produces: content type
\* application/json with a JSON body, the same content type with a body
\* that is not JSON, or another content type
HandlerResponses == {"json", "badjson", "html"}

\* the response object call_next hands back: which of the attributes body
\* and body_iterator it has (a plain Response has body, the streaming wrapper
\* of the middleware base class has body_iterator)
ResponseAttrs == {a \in [body : BOOLEAN, body_iterator : BOOLEAN] :
                    a.body \/ a.body_iterator}

\* EncryptionMiddleware.encrypt_response: a new JSONResponse with the
\* envelope, under a key drawn from os.urandom(32), and the header
\* X-Encrypted-Response; or the response object it was given: when the
\* content type is not JSON, when reading body_iterator raises (the object
\* has no such attribute), and when the body read from body_iterator is
\* not JSON - drained tells that the iterator of the returned object has
\* been consumed
encrypt_response(h, a) ==
    IF h = "html"
    THEN [encrypted |-> FALSE, key |-> "none", drained |-> FALSE]
    ELSE IF ~a.body_iterator
    THEN [encrypted |-> FALSE, key |-> "none", drained |-> FALSE]
    ELSE IF h = "badjson"
    THEN [encrypted |-> FALSE, key |-> "none", drained |-> TRUE]
    ELSE [encrypted |-> TRUE, key |-> "urandom", drained |-> FALSE]

\* call_next returns; on a path that requires encryption a response that
\* has the attribute body is passed to encrypt_response
HandlerReturn(h, a) ==
    /\ cur.pc = "handler"
    /\ LET e == IF ~cur.exempt /\ cur.requires /\ a.body
                THEN encrypt_response(h, a)
                ELSE [encrypted |-> FALSE, key |-> "none", drained |-> FALSE]
       IN  cur' = [cur EXCEPT !.pc = "responded",
                      !.resp = Resp(200, h, "none"),
                      !.encrypted = e.encrypted,
                      !.key = e.key,
                      !.drained = e.drained]
    /\ UNCHANGED <<now, ticks, nonceVars, call, lastAccept,
                   ENCRYPTION_REQUIRED, ENCRYPTION_REQUIRED_ENDPOINTS, accepted, unitVars>>

\* the response is sent; the middleware keeps nothing of the request
Deliver ==
    /\ cur.pc = "responded"
    /\ cur' = NoRequest
    /\ UNCHANGED <<now, ticks, nonceVars, call, lastAccept,
                   ENCRYPTION_REQUIRED, ENCRYPTION_REQUIRED_ENDPOINTS, accepted, unitVars>>

\* ------------------------------------------------------ FieldEncryption
\* code points of the modelled strings: 'a' (one byte in UTF-8), e-acute
\* (two bytes) and a lone surrogate (no UTF-8 encoding)
CodePoints == {97, 233, 55296}
Strings == UNION {[1..n -> CodePoints] : n \in 0..MaxStrLen}
IsSurrogate(c) == 55296 <= c /\ c <= 57343

\* the UTF-8 bytes of one code point
EncodeCp(c) ==
    IF c < 128 THEN <<c>>
    ELSE IF c < 2048 THEN <<192 + (c \div 64), 128 + (c % 64)>>
    ELSE <<224 + (c \div 4096), 128 + ((c \div 64) % 64), 128 + (c % 64)>>

\* str.encode('utf-8') raises UnicodeEncodeError on a surrogate
CanEncode(s) == \A i \in 1..Len(s) : ~IsSurrogate(s[i])

\* str.encode('utf-8')
RECURSIVE utf8_encode(_)
utf8_encode(s) ==
    IF s = <<>> THEN <<>> ELSE EncodeCp(Head(s)) \o utf8_encode(Tail(s))

\* bytes.decode('utf-8'): the code points, or ok = FALSE (UnicodeDecodeError)
RECURSIVE utf8_decode(_)
utf8_decode(b) ==
    IF b = <<>> THEN [ok |-> TRUE, s |-> <<>>]
    ELSE LET h == Head(b)
             n == IF h < 128 THEN 1
                  ELSE IF h >= 192 /\ h < 224 THEN 2
                  ELSE IF h >= 224 /\ h < 240 THEN 3
                  ELSE 0
             bad == [ok |-> FALSE, s |-> <<>>]
         IN  IF n = 0 \/ Len(b) < n THEN bad
             ELSE IF \E i \in 2..n : b[i] < 128 \/ b[i] >= 192 THEN bad
             ELSE LET c == IF n = 1 THEN h
                           ELSE IF n = 2 THEN (h - 192) * 64 + (b[2] - 128)
                           ELSE (h - 224) * 4096 + (b[2] - 128) * 64 + (b[3] - 128)
                      rest == utf8_decode(SubSeq(b, n + 1, Len(b)))
                  IN  IF (n = 2 /\ c < 128) \/ (n = 3 /\ (c < 2048 \/ IsSurrogate(c)))
                         \/ ~rest.ok
                      THEN bad
                      ELSE [ok |-> TRUE, s |-> <<c>> \o rest.s]

\* values of type Optional[str]: None, a string of code points, or the
\* text of a Fernet token (made with key k over the bytes v with the random
\* part iv; ok = FALSE once a character of the token was changed)
None == [t |-> "None", v |-> <<>>, k |-> 0, iv |-> 0, ok |-> TRUE]
Str(s) == [t |-> "str", v |-> s, k |-> 0, iv |-> 0, ok |-> TRUE]
Token(k, b, iv) == [t |-> "token", v |-> b, k |-> k, iv |-> iv, ok |-> TRUE]
Tampered(x) == [x EXCEPT !.ok = FALSE]
EmptyStr == Str(<<>>)

FieldKeys == 1..NumFieldKeys
\* the random part of a token (Fernet draws an IV for every token)
FernetIVs == {1, 2}

\* Fernet(key).encrypt(data)
Fernet_encrypt(k, b, iv) == Token(k, b, iv)

\* Fernet(key).decrypt(token): the data, or ok = FALSE (InvalidToken) for
\* text that is not a token, a changed token, or a token of another key
Fernet_decrypt(k, x) ==
    IF x.t = "token" /\ x.ok /\ x.k = k THEN [ok |-> TRUE, b |-> x.v]
    ELSE [ok |-> FALSE, b |-> <<>>]

\* what a call gives back: the exception that left it, or the value
Ret(raised, value) == [raised |-> raised, value |-> value]

\* FieldEncryption.encrypt(plaintext) under key k
encrypt(k, plaintext, iv) ==
    IF plaintext = None \/ plaintext = EmptyStr THEN Ret("none", None)
    ELSE IF ~CanEncode(plaintext.v) THEN Ret("UnicodeEncodeError", None)
    ELSE Ret("none", Fernet_encrypt(k, utf8_encode(plaintext.v), iv))

\* decrypt that treats the empty string as any other text
decrypt_EmptyIsText(k, encrypted_text) ==
    IF encrypted_text = None THEN Ret("none", None)
    ELSE IF encrypted_text.t = "str" /\ ~CanEncode(encrypted_text.v)
    THEN Ret("UnicodeEncodeError", None)
    ELSE LET d == Fernet_decrypt(k, encrypted_text)
         IN  IF ~d.ok THEN Ret("ValueError", None)
             ELSE LET u == utf8_decode(d.b)
                  IN  IF u.ok THEN Ret("none", Str(u.s))
                      ELSE Ret("UnicodeDecodeError", None)

\* FieldEncryption.decrypt(encrypted_text) under key k
decrypt(k, encrypted_text) ==
    IF encrypted_text = None \/ encrypted_text = EmptyStr THEN Ret("none", None)
    ELSE IF encrypted_text.t = "str" /\ ~CanEncode(encrypted_text.v)
    THEN Ret("UnicodeEncodeError", None)
    ELSE LET d == Fernet_decrypt(k, encrypted_text)
         IN  IF ~d.ok THEN Ret("ValueError", None)
             ELSE LET u == utf8_decode(d.b)
                  IN  IF u.ok THEN Ret("none", Str(u.s))
                      ELSE Ret("UnicodeDecodeError", None)

\* ----------------------------------------------------------------- Topic
\* Python truth value of an Optional[str]
Truthy(x) == x # None /\ x # EmptyStr

\* a row as Topic(...) creates it
NewTopic == [encrypted_mentor_narrative |-> None, mentor_narrative |-> None]

\* Topic.set_mentor_narrative(narrative): the exception, and the row after
set_mentor_narrative(row, k, narrative, iv) ==
    IF Truthy(narrative)
    THEN LET e == encrypt(k, narrative, iv)
         IN  IF e.raised # "none" THEN [raised |-> e.raised, row |-> row]
             ELSE [raised |-> "none",
                   row |-> [encrypted_mentor_narrative |-> e.value,
                            mentor_narrative |-> narrative]]
    ELSE [raised |-> "none", row |-> NewTopic]

\* the getter as the commented-out get_tts_audio does it: None on failure
get_mentor_narrative_NoFallback(row, k) ==
    IF Truthy(row.encrypted_mentor_narrative)
    THEN LET d == decrypt(k, row.encrypted_mentor_narrative)
         IN  IF d.raised = "none" THEN Ret("none", d.value)
             ELSE Ret("none", None)
    ELSE Ret("none", row.mentor_narrative)

\* Topic.get_mentor_narrative()
get_mentor_narrative(row, k) ==
    IF Truthy(row.encrypted_mentor_narrative)
    THEN LET d == decrypt(k, row.encrypted_mentor_narrative)
         IN  IF d.raised = "none" THEN Ret("none", d.value)
             ELSE Ret("none", row.mentor_narrative)
    ELSE Ret("none", row.mentor_narrative)

\* the call in progress on the cipher or on the row
NoFcall == [pc |-> "idle", op |-> "none", arg |-> None, raised |-> "none", value |-> None]
Fcall(op, arg, r) == [pc |-> "done", op |-> op, arg |-> arg,
                      raised |-> r.raised, value |-> r.value]

\* generate_mentor_content saves a narrative: topic.set_mentor_narrative(n)
SetNarrative(n, iv) ==
    /\ fcall.pc = "idle"
    /\ LET r == set_mentor_narrative(topic, fernet, n, iv)
       IN  /\ topic' = r.row
           /\ fcall' = Fcall("set", n, Ret(r.raised, None))
    /\ UNCHANGED <<now, ticks, nonceVars, call, lastAccept, pipeVars, vt, fernet, cryptoVars>>

\* generate_mentor_content looks the narrative up: topic.get_mentor_narrative()
GetNarrative ==
    /\ fcall.pc = "idle"
    /\ fcall' = Fcall("get", None, get_mentor_narrative(topic, fernet))
    /\ UNCHANGED <<now, ticks, nonceVars, call, lastAccept, pipeVars, vt, fernet, topic, cryptoVars>>

\* the migration script encrypts the narrative of a row that has only the
\* plain column; a row whose encryption fails is left as it is
Migrate(iv) ==
    /\ fcall.pc = "idle"
    /\ topic.mentor_narrative # None /\ topic.encrypted_mentor_narrative = None
    /\ LET e == encrypt(fernet, topic.mentor_narrative, iv)
       IN  /\ topic' = IF e.raised = "none"
                       THEN [topic EXCEPT !.encrypted_mentor_narrative = e.value]
                       ELSE topic
           /\ fcall' = Fcall("migrate", None, Ret("none", None))
    /\ UNCHANGED <<now, ticks, nonceVars, call, lastAccept, pipeVars, vt, fernet, cryptoVars>>

\* the process is started again and field_encryption holds another key
\* (FIELD_ENCRYPTION_KEY changed, or a key generated anew in development)
Restart(k) ==
    /\ fcall.pc = "idle"
    /\ k # fernet
    /\ fernet' = k
    /\ UNCHANGED <<now, ticks, nonceVars, call, lastAccept, pipeVars, vt, topic, fcall, cryptoVars>>

\* the caller has consumed what the call gave back
FieldDone ==
    /\ fcall.pc = "done"
    /\ fcall' = NoFcall
    /\ UNCHANGED <<now, ticks, nonceVars, call, lastAccept, pipeVars, vt, fernet, topic, cryptoVars>>

\* ------------------------------------------- calls of the field cipher
\* the tokens the cipher can be handed: made under any key from an
\* encodable non-empty string, or from bytes that are not UTF-8
Tokens ==
    {Token(k, utf8_encode(s), iv) :
        k \in FieldKeys, s \in {x \in Strings : x # <<>> /\ CanEncode(x)}, iv \in FernetIVs}
    \cup {Token(k, <<255>>, 1) : k \in FieldKeys}

\* arguments of encrypt and of decrypt
Plaintexts == {None} \cup {Str(s) : s \in Strings}
EncryptedTexts == Plaintexts \cup Tokens \cup {Tampered(x) : x \in Tokens}

\* _initialize_key that generates a key whenever none is configured
initialize_key_GenerateAnywhere(encryption_key, env, generated) ==
    IF encryption_key.set
    THEN IF encryption_key.key \in FieldKeys
         THEN [raised |-> "none", msg |-> "none", fernet |-> encryption_key.key,
               generated |-> FALSE]
         ELSE [raised |-> "ValueError", msg |-> "Invalid encryption key in environment",
               fernet |-> 0, generated |-> FALSE]
    ELSE [raised |-> "none", msg |-> "none", fernet |-> generated, generated |-> TRUE]

\* FieldEncryption._initialize_key with FIELD_ENCRYPTION_KEY = encryption_key
\* (set: not None and not ""; key: the Fernet key it holds, 0 when it is
\* not a Fernet key), ENVIRONMENT = env and generated what
\* Fernet.generate_key() gives: the exception and the cipher installed
\* (0: self.fernet stays None)
initialize_key(encryption_key, env, generated) ==
    IF encryption_key.set
    THEN IF encryption_key.key \in FieldKeys
         THEN [raised |-> "none", msg |-> "none", fernet |-> encryption_key.key,
               generated |-> FALSE]
         ELSE [raised |-> "ValueError", msg |-> "Invalid encryption key in environment",
               fernet |-> 0, generated |-> FALSE]
    ELSE IF env # "production"
    THEN [raised |-> "none", msg |-> "none", fernet |-> generated, generated |-> TRUE]
    ELSE [raised |-> "ValueError", msg |-> "FIELD_ENCRYPTION_KEY must be set in production",
          fernet |-> 0, generated |-> FALSE]

\* the process starts again: field_encryption = FieldEncryption()
InitializeKey(encryption_key, env, generated) ==
    /\ fcall.pc = "idle"
    /\ LET r == initialize_key(encryption_key, env, generated)
       IN  /\ fernet' = r.fernet
           /\ fcall' = Fcall("initialize_key",
                             [encryption_key |-> encryption_key, env |-> env],
                             [raised |-> r.raised,
                              value |-> [msg |-> r.msg, generated |-> r.generated]])
    /\ UNCHANGED <<now, ticks, nonceVars, call, lastAccept, pipeVars, vt, topic, cryptoVars>>

\* field_encryption.encrypt(x)
Encrypt(x, iv) ==
    /\ fcall.pc = "idle" /\ fernet \in FieldKeys
    /\ fcall' = Fcall("encrypt", x, encrypt(fernet, x, iv))
    /\ UNCHANGED <<now, ticks, nonceVars, call, lastAccept, pipeVars, vt, fernet, topic, cryptoVars>>

\* field_encryption.decrypt(x)
Decrypt(x) ==
    /\ fcall.pc = "idle" /\ fernet \in FieldKeys
    /\ fcall' = Fcall("decrypt", x, decrypt(fernet, x))
    /\ UNCHANGED <<now, ticks, nonceVars, call, lastAccept, pipeVars, vt, fernet, topic, cryptoVars>>

\* field_encryption.decrypt(field_encryption.encrypt(x)): decrypt applied
\* to what the encrypt call returned; arg stays x
DecryptReturned ==
    /\ fcall.pc = "done" /\ fcall.op = "encrypt" /\ fcall.raised = "none"
    /\ fcall' = Fcall("roundtrip", fcall.arg, decrypt(fernet, fcall.value))
    /\ UNCHANGED <<now, ticks, nonceVars, call, lastAccept, pipeVars, vt, fernet, topic, cryptoVars>>

\* ------------------------------------------------------------- base64
\* a base64 text is a sequence of characters: the digits 0..63 of the
\* alphabet, PAD for '=', STRAY for a character outside the alphabet
PAD == 64
STRAY == 65

\* base64.b64encode(b): four characters for every three bytes, the last
\* quantum filled up with '='
b64encode(b) ==
    LET n == Len(b)
        B(k) == IF k <= n THEN b[k] ELSE 0
    IN  [j \in 1..(4 * ((n + 2) \div 3)) |->
            LET q == 3 * ((j - 1) \div 4)
                r == (j - 1) % 4
            IN  IF r = 0 THEN B(q + 1) \div 4
                ELSE IF r = 1 THEN (B(q + 1) % 4) * 16 + (B(q + 2) \div 16)
                ELSE IF r = 2
                THEN (IF q + 2 > n THEN PAD ELSE (B(q + 2) % 16) * 4 + (B(q + 3) \div 64))
                ELSE (IF q + 3 > n THEN PAD ELSE B(q + 3) % 64)]

\* base64.b64decode(s), that is binascii.a2b_base64 in its default,
\* non-strict mode: characters outside the alphabet are skipped; a '=' read
\* at quad_pos 3, or a second '=' in a row at quad_pos 2, completes the pad
\* sequence and ends the input; any other '=' is skipped; the bits left
\* over in the last digit are dropped; without a pad sequence the digits
\* must fill whole quanta, else binascii.Error is raised
b64decode(s) ==
    LET IsB64Char(c) == c <= PAD
        IsB64Digit(c) == c < PAD
        t == SelectSeq(s, IsB64Char)
        \* quad_pos when character i of t is read
        QuadPos(i) == Len(SelectSeq(SubSeq(t, 1, i - 1), IsB64Digit)) % 4
        Ends == {i \in 1..Len(t) :
                    /\ t[i] = PAD
                    /\ \/ QuadPos(i) = 3
                       \/ QuadPos(i) = 2 /\ i > 1 /\ t[i - 1] = PAD}
        e == IF Ends = {} THEN Len(t) + 1
             ELSE CHOOSE i \in Ends : \A j \in Ends : i <= j
        dg == SelectSeq(SubSeq(t, 1, e - 1), IsB64Digit)
        nd == Len(dg)
        nbytes == 3 * (nd \div 4)
                  + (IF nd % 4 = 2 THEN 1 ELSE IF nd % 4 = 3 THEN 2 ELSE 0)
    IN  IF Ends = {} /\ nd % 4 # 0 THEN [ok |-> FALSE, bytes |-> <<>>]
        ELSE [ok |-> TRUE,
              bytes |-> [j \in 1..nbytes |->
                  LET q == 4 * ((j - 1) \div 3)
                      r == (j - 1) % 3
                  IN  IF r = 0 THEN dg[q + 1] * 4 + (dg[q + 2] \div 16)
                      ELSE IF r = 1 THEN (dg[q + 2] % 16) * 16 + (dg[q + 3] \div 4)
                      ELSE (dg[q + 3] % 4) * 64 + dg[q + 4]]]

\* n bytes of value x
Rep(n, x) == [i \in 1..n |-> x]

\* a text without its last character; bytes with byte i replaced
DropLast(s) == SubSeq(s, 1, Len(s) - 1)
WithByte(b, i, x) == [b EXCEPT ![i] = x]

\* --------------------------------------------- CryptoService: the key pair
\* RSA_PRIVATE_KEY_PEM: not set, the PEM of a 2048-bit RSA key, or text that
\* load_pem_private_key refuses
PEMs == {"unset", "rsa", "malformed"}

\* CryptoService._initialize_keys: the key pair installed ("pem" the one of
\* the configuration, "generated" one made by rsa.generate_private_key) and
\* the exception that leaves the method
initialize_keys(pem) ==
    IF pem = "rsa" THEN [private_key |-> "pem", raised |-> "none"]
    ELSE [private_key |-> "generated", raised |-> "none"]

\* the key pairs a client may have wrapped for: the two above and the pair
\* of an earlier process, as their number inside a ciphertext
KeyPairs == {"pem", "generated", "earlier"}

RSA_BYTES == RSA_KEY_SIZE \div 8

\* public_key.encrypt(key, OAEP): RSA_BYTES bytes that only the private key
\* of pair kp opens; the key is carried twice, so that no changed byte
\* leaves a ciphertext that opens
RSA_encrypt(kp, key) ==
    LET PubId == IF kp = "pem" THEN 1 ELSE IF kp = "generated" THEN 2 ELSE 3
    IN  <<0, PubId, Len(key)>> \o key \o key \o Rep(RSA_BYTES - 3 - 2 * Len(key), 0)

\* private_key.decrypt(ct, OAEP) with the private key of pair kp: the
\* plaintext, or the ValueError of the library
RSA_decrypt(kp, ct) ==
    IF Len(ct) # RSA_BYTES
    THEN [ok |-> FALSE, msg |-> "Ciphertext length must be equal to key size.", key |-> <<>>]
    ELSE LET n == ct[3]
             key == SubSeq(ct, 4, 3 + n)
         IN  IF 3 + 2 * n <= RSA_BYTES /\ ct = RSA_encrypt(kp, key)
             THEN [ok |-> TRUE, msg |-> "none", key |-> key]
             ELSE [ok |-> FALSE, msg |-> "Decryption failed", key |-> <<>>]

\* no CryptoService constructed; no call on it in progress
NoKeys == [pc |-> "none", pem |-> "unset", env |-> "development",
           private_key |-> "none", raised |-> "none"]
NoCcall == [pc |-> "idle", op |-> "none", arg |-> <<>>, cause |-> "none",
            raised |-> "none", msg |-> "none", value |-> <<>>]

\* what a method of CryptoService gives back
Raise(type, msg) == [raised |-> type, msg |-> msg, value |-> <<>>]
Value(v) == [raised |-> "none", msg |-> "none", value |-> v]

\* ------------------------------------------ CryptoService.decrypt_aes_key
\* the error of the failing sub-step passed on to the caller as it is
CryptoService_decrypt_aes_key_Reraise(kp, encrypted_key_b64) ==
    LET d == b64decode(encrypted_key_b64)
    IN  IF ~d.ok THEN Raise("binascii.Error", "Incorrect padding")
        ELSE LET u == RSA_decrypt(kp, d.bytes)
             IN  IF ~u.ok THEN Raise("ValueError", u.msg)
                 ELSE IF Len(u.key) # AES_KEY_SIZE
                 THEN Raise("ValueError", "Invalid AES key size")
                 ELSE Value(u.key)

\* CryptoService.decrypt_aes_key(encrypted_key_b64) with the private key of
\* pair kp: every exception inside the try is replaced by one ValueError
CryptoService_decrypt_aes_key(kp, encrypted_key_b64) ==
    LET d == b64decode(encrypted_key_b64)
    IN  IF ~d.ok THEN Raise("ValueError", "Failed to decrypt AES key")
        ELSE LET u == RSA_decrypt(kp, d.bytes)
             IN  IF ~u.ok THEN Raise("ValueError", "Failed to decrypt AES key")
                 ELSE IF Len(u.key) # AES_KEY_SIZE
                 THEN Raise("ValueError", "Failed to decrypt AES key")
                 ELSE Value(u.key)

\* the AES keys clients wrap: n bytes, 32 for AES-256
AesKey(n) == Rep(n, 165)

\* the wrapped keys presented to a service whose key pair is kp, each with
\* the sub-step it cannot pass ("none": it passes all of them):
\*   the base64 of a 32-byte key wrapped for kp, the same followed by a
\*   character outside the alphabet, the same without its last '=';
\*   ciphertexts one byte short and one byte long; a key wrapped for
\*   another pair, and a ciphertext with one byte changed; keys of other sizes
WrappedKeys(kp) ==
    LET ct == RSA_encrypt(kp, AesKey(AES_KEY_SIZE))
        In(bytes, cause) == [text |-> b64encode(bytes), cause |-> cause]
    IN  {In(ct, "none"),
         [text |-> Append(b64encode(ct), STRAY), cause |-> "none"],
         [text |-> DropLast(b64encode(ct)), cause |-> "base64"],
         In(DropLast(ct), "size"), In(Append(ct, 0), "size"),
         In(WithByte(ct, 10, 166), "padding"), In(WithByte(ct, RSA_BYTES, 1), "padding")}
        \cup {In(RSA_encrypt(o, AesKey(AES_KEY_SIZE)), "padding") : o \in KeyPairs \ {kp}}
        \cup {In(RSA_encrypt(kp, AesKey(n)), "keylen") : n \in {16, 31, 33}}

\* ----------------------------------------- CryptoService.verify_signature
\* hmac.new(key, message, sha256).digest(): 32 bytes, distinct for distinct
\* keys and messages (the number of every part is one byte of the digest)
\* f"{method}|{url}|{timestamp}|{nonce}|{encrypted_data}"
Message(method, url, timestamp, nonce, encrypted_data) ==
    LET \* str(timestamp) inside the f-string
        DecStr == IF timestamp = 0 THEN "0" ELSE "1"
    IN  <<method, "|", url, "|", DecStr, "|", nonce, "|", encrypted_data>>

HmacSha256(key, message) ==
    LET PartId(x) ==
            IF x \in {"POST", "/api/folders", "0", "abc123XYZ0", "ct0"} THEN 1 ELSE 2
    IN  <<PartId(key), PartId(message[1]), PartId(message[3]), PartId(message[5]),
          PartId(message[7]), PartId(message[9])>> \o Rep(25, 90) \o <<64>>

\* an undecodable signature lets binascii.Error out of the method
CryptoService_verify_signature_Raises(method, url, timestamp, nonce, encrypted_data, signature_b64) ==
    LET computed_sig == HmacSha256(nonce, Message(method, url, timestamp, nonce, encrypted_data))
        provided_sig == b64decode(signature_b64)
    IN  IF ~provided_sig.ok THEN Raise("binascii.Error", "Incorrect padding")
        ELSE Value(<<computed_sig = provided_sig.bytes>>)

\* CryptoService.verify_signature: hmac.compare_digest of the recomputed
\* HMAC with the decoded signature; False when anything raises
CryptoService_verify_signature(method, url, timestamp, nonce, encrypted_data, signature_b64) ==
    LET computed_sig == HmacSha256(nonce, Message(method, url, timestamp, nonce, encrypted_data))
        provided_sig == b64decode(signature_b64)
    IN  IF ~provided_sig.ok THEN Value(<<FALSE>>)
        ELSE Value(<<computed_sig = provided_sig.bytes>>)

\* the requests whose signature is verified: one request and those that
\* differ from it in one part
SigRequest == [method |-> "POST", url |-> "/api/folders", timestamp |-> 0,
               nonce |-> "abc123XYZ0", encrypted_data |-> "ct0"]
SigRequests ==
    {r \in [method : {"POST", "GET"}, url : {"/api/folders", "/api/folders/1"},
            timestamp : {0, 1}, nonce : {"abc123XYZ0", "abc123XYZ1"},
            encrypted_data : {"ct0", "ct1"}] :
        Cardinality({f \in DOMAIN r : r[f] # SigRequest[f]}) <= 1}

\* base64.b64encode(hmac) as the client computes it for request r
Sign(r) ==
    b64encode(HmacSha256(r.nonce,
                         Message(r.method, r.url, r.timestamp, r.nonce, r.encrypted_data)))

\* the signatures presented with request r, each with what was done to the
\* signature of r:
\*   exact     nothing
\*   lowbits   one of the two unused low bits of its last digit set
\*   stray     a character outside the alphabet put after it
\*   flipped   the lowest bit of its first digit inverted
\*   nopad     its final '=' removed
\*   short     the base64 of the first 31 bytes of the HMAC
\*   empty     the empty text
\*   other     the signature of a request that differs in one part
Signatures(r) ==
    LET sig == Sign(r)
        n == Len(sig)
        h == HmacSha256(r.nonce, Message(r.method, r.url, r.timestamp, r.nonce, r.encrypted_data))
    IN  {[text |-> sig, cause |-> "exact"],
         [text |-> WithByte(sig, n - 1, sig[n - 1] + 2), cause |-> "lowbits"],
         [text |-> Append(sig, STRAY), cause |-> "stray"],
         [text |-> WithByte(sig, 1, IF sig[1] % 2 = 0 THEN sig[1] + 1 ELSE sig[1] - 1),
          cause |-> "flipped"],
         [text |-> DropLast(sig), cause |-> "nopad"],
         [text |-> b64encode(SubSeq(h, 1, 31)), cause |-> "short"],
         [text |-> <<>>, cause |-> "empty"]}
        \cup {[text |-> Sign(o), cause |-> "other"] : o \in SigRequests \ {r}}

\* ------------------------------------------ CryptoService.decrypt_payload
\* AES-GCM for ciphertexts of up to 15 bytes, idealised:
\* a key stream added to the plaintext, and a 16-byte tag that is distinct
\* for distinct keys, IVs and ciphertexts
KeyStream(key, iv, i) == (key[1] + 3 * iv[1] + 5 * Len(iv) + i) % 256

GcmCiphertext(key, iv, plaintext) ==
    [i \in 1..Len(plaintext) |-> (plaintext[i] + KeyStream(key, iv, i)) % 256]

GcmPlaintext(key, iv, ct) ==
    [i \in 1..Len(ct) |-> (ct[i] + 256 - KeyStream(key, iv, i)) % 256]

GcmTag(key, iv, ct) ==
    [j \in 1..16 |->
        (7 * key[1] + 11 * iv[1] + 13 * Len(iv) + Len(ct) + j
            + (IF j <= Len(ct) THEN ct[j] ELSE 0)) % 256]

\* Cipher(AES(key), GCM(iv, tag)).decryptor(); update(ct) + finalize():
\* the plaintext, ValueError for a key that is not an AES key or a tag
\* shorter than 16 bytes, InvalidTag when the tag does not verify
GcmDecrypt(key, iv, tag, ct) ==
    IF Len(key) \notin {16, 24, 32} \/ Len(tag) < 16 \/ Len(tag) > 16 \/ Len(iv) < 8
    THEN [ok |-> FALSE, err |-> "ValueError", plaintext |-> <<>>]
    ELSE IF tag # GcmTag(key, iv, ct)
    THEN [ok |-> FALSE, err |-> "InvalidTag", plaintext |-> <<>>]
    ELSE [ok |-> TRUE, err |-> "none", plaintext |-> GcmPlaintext(key, iv, ct)]

\* the JSON texts sent: {"a":1} and [1]
JsonObject == <<123, 34, 97, 34, 58, 49, 125>>
JsonList == <<91, 49, 93>>

\* json.dumps(data) for the Python values {"a": 1}, [1], {"a": "\u00e9"}
\* (a string with a non-ASCII character) and {1: 2} (a dict with an int
\* key, which is not a JSON value): the code points of the text, with ", "
\* and ": " as separators, non-ASCII characters escaped, keys turned into
\* strings
json_dumps(data) ==
    IF data = "dict_a_1" THEN <<123, 34, 97, 34, 58, 32, 49, 125>>
    ELSE IF data = "list_1" THEN <<91, 49, 93>>
    ELSE IF data = "dict_a_e9"
    THEN <<123, 34, 97, 34, 58, 32, 34, 92, 117, 48, 48, 101, 57, 34, 125>>
    ELSE <<123, 34, 49, 34, 58, 32, 50, 125>>

\* json.loads(text): the value, or JSONDecodeError; white space between
\* the tokens is skipped (none of these texts has a space inside a string)
json_loads(text) ==
    LET t == SelectSeq(text, LAMBDA c : c # 32)
    IN  IF t = JsonObject THEN [ok |-> TRUE, value |-> "dict_a_1"]
        ELSE IF t = JsonList THEN [ok |-> TRUE, value |-> "list_1"]
        ELSE IF t = <<123, 34, 97, 34, 58, 34, 92, 117, 48, 48, 101, 57, 34, 125>>
        THEN [ok |-> TRUE, value |-> "dict_a_e9"]
        ELSE IF t = <<123, 34, 49, 34, 58, 50, 125>>
        THEN [ok |-> TRUE, value |-> "dict_s1_2"]
        ELSE [ok |-> FALSE, value |-> "none"]

\* decrypt_payload without the two size tests of lines 176-179
CryptoService_decrypt_payload_NoSizeCheck(encrypted_data_b64, aes_key, iv_b64, auth_tag_b64) ==
    LET encrypted_data == b64decode(encrypted_data_b64)
        iv == b64decode(iv_b64)
        auth_tag == b64decode(auth_tag_b64)
        generic == Raise("ValueError", "Failed to decrypt payload")
    IN  IF ~encrypted_data.ok \/ ~iv.ok \/ ~auth_tag.ok THEN generic
        ELSE LET d == GcmDecrypt(aes_key, iv.bytes, auth_tag.bytes, encrypted_data.bytes)
             IN  IF d.err = "InvalidTag"
                 THEN Raise("ValueError", "Authentication failed - data may be tampered")
                 ELSE IF ~d.ok THEN generic
                 ELSE LET u == utf8_decode(d.plaintext)
                          j == json_loads(u.s)
                      IN  IF ~u.ok \/ ~j.ok THEN generic ELSE Value(<<j.value>>)

\* CryptoService.decrypt_payload(encrypted_data_b64, aes_key, iv_b64,
\* auth_tag_b64): the parsed JSON, or one of two ValueErrors
CryptoService_decrypt_payload(encrypted_data_b64, aes_key, iv_b64, auth_tag_b64) ==
    LET encrypted_data == b64decode(encrypted_data_b64)
        iv == b64decode(iv_b64)
        auth_tag == b64decode(auth_tag_b64)
        generic == Raise("ValueError", "Failed to decrypt payload")
    IN  IF ~encrypted_data.ok \/ ~iv.ok \/ ~auth_tag.ok THEN generic
        ELSE IF Len(iv.bytes) # AES_IV_SIZE THEN generic
        ELSE IF Len(auth_tag.bytes) # AES_TAG_SIZE THEN generic
        ELSE LET d == GcmDecrypt(aes_key, iv.bytes, auth_tag.bytes, encrypted_data.bytes)
             IN  IF d.err = "InvalidTag"
                 THEN Raise("ValueError", "Authentication failed - data may be tampered")
                 ELSE IF ~d.ok THEN generic
                 ELSE LET u == utf8_decode(d.plaintext)
                          j == json_loads(u.s)
                      IN  IF ~u.ok \/ ~j.ok THEN generic ELSE Value(<<j.value>>)

\* a message as a client seals it: key, IV, ciphertext and tag as bytes
Seal(key, iv, plaintext) ==
    LET ct == GcmCiphertext(key, iv, plaintext)
    IN  [key |-> key, iv |-> iv, ct |-> ct, tag |-> GcmTag(key, iv, ct)]

\* encrypt_payload that computes the tag over the plaintext
CryptoService_encrypt_payload_TagOfPlaintext(data, aes_key, iv) ==
    IF Len(aes_key) \notin {16, 24, 32}
    THEN Raise("ValueError", "Failed to encrypt payload")
    ELSE LET plaintext == utf8_encode(json_dumps(data))
             m == Seal(aes_key, iv, plaintext)
         IN  Value(<<[encrypted_data |-> b64encode(m.ct), iv |-> b64encode(iv),
                      auth_tag |-> b64encode(GcmTag(aes_key, iv, plaintext))]>>)

\* CryptoService.encrypt_payload(data, aes_key), iv what os.urandom gave:
\* the three base64 texts, or ValueError for a key that is not an AES key
CryptoService_encrypt_payload(data, aes_key, iv) ==
    IF Len(aes_key) \notin {16, 24, 32}
    THEN Raise("ValueError", "Failed to encrypt payload")
    ELSE LET plaintext == utf8_encode(json_dumps(data))
             m == Seal(aes_key, iv, plaintext)
         IN  Value(<<[encrypted_data |-> b64encode(m.ct), iv |-> b64encode(iv),
                      auth_tag |-> b64encode(m.tag)]>>)

\* the messages presented to decrypt_payload, each with what was done to a
\* message sealed under a 32-byte key and a 12-byte IV:
\*   none        nothing ("list": the JSON text is a list, "json": not JSON)
\*   ciphertext  one byte of the ciphertext changed
\*   tag         one byte of the tag changed
\*   ivsize      sealed under an IV of 11, 13 or 16 bytes
\*   tagsize     the tag cut to its first 12 bytes, or one byte added
\*   key         opened with another 32-byte key
\*   iv          another 12-byte IV given
SealedMessages ==
    LET GoodIv == Rep(AES_IV_SIZE, 17)
        \* {"a":1} cut after the colon
        JsonCut == SubSeq(JsonObject, 1, 5)
        m == Seal(AesKey(AES_KEY_SIZE), GoodIv, JsonObject)
        In(x, cause) == [key |-> x.key, iv |-> x.iv, ct |-> x.ct, tag |-> x.tag,
                         cause |-> cause]
    IN  {In(m, "none"),
         In(Seal(AesKey(AES_KEY_SIZE), GoodIv, JsonList), "list"),
         In(Seal(AesKey(AES_KEY_SIZE), GoodIv, JsonCut), "json"),
         In([m EXCEPT !.tag = SubSeq(m.tag, 1, 12)], "tagsize"),
         In([m EXCEPT !.tag = Append(m.tag, 0)], "tagsize"),
         In([m EXCEPT !.key = Rep(AES_KEY_SIZE, 166)], "key"),
         In([m EXCEPT !.iv = Rep(AES_IV_SIZE, 18)], "iv")}
        \cup {In([m EXCEPT !.ct = WithByte(m.ct, i, (m.ct[i] + 1) % 256)], "ciphertext") :
                 i \in 1..Len(m.ct)}
        \cup {In([m EXCEPT !.tag = WithByte(m.tag, i, (m.tag[i] + 128) % 256)], "tag") :
                 i \in 1..AES_TAG_SIZE}
        \cup {In(Seal(AesKey(AES_KEY_SIZE), Rep(n, 17), JsonObject), "ivsize") :
                 n \in {11, 13, 16}}

Ccall(op, arg, cause, r) ==
    [pc |-> "done", op |-> op, arg |-> arg, cause |-> cause,
     raised |-> r.raised, msg |-> r.msg, value |-> r.value]

\* crypto_service = CryptoService(): __init__ runs _initialize_keys
InitializeKeys(pem, env) ==
    /\ keys.pc = "none"
    /\ LET r == initialize_keys(pem)
       IN  keys' = [pc |-> IF r.raised = "none" THEN "up" ELSE "failed",
                    pem |-> pem, env |-> env,
                    private_key |-> r.private_key, raised |-> r.raised]
    /\ UNCHANGED <<now, ticks, nonceVars, call, lastAccept, pipeVars, vt, fieldVars, ccall>>

\* crypto_service.decrypt_aes_key(encrypted_key_b64)
DecryptAesKey(x) ==
    /\ keys.pc = "up" /\ ccall.pc = "idle"
    /\ ccall' = Ccall("decrypt_aes_key", x.text, x.cause,
                      CryptoService_decrypt_aes_key(keys.private_key, x.text))
    /\ UNCHANGED <<now, ticks, nonceVars, call, lastAccept, pipeVars, vt, fieldVars, keys>>

\* crypto_service.verify_signature(method, url, timestamp, nonce, data, sig)
VerifySignature(r, x) ==
    /\ keys.pc = "up" /\ ccall.pc = "idle"
    /\ ccall' = Ccall("verify_signature", [request |-> r, signature |-> x.text], x.cause,
                      CryptoService_verify_signature(r.method, r.url, r.timestamp, r.nonce,
                                                     r.encrypted_data, x.text))
    /\ UNCHANGED <<now, ticks, nonceVars, call, lastAccept, pipeVars, vt, fieldVars, keys>>

\* crypto_service.decrypt_payload(data, aes_key, iv, auth_tag), the binary
\* fields in base64
DecryptPayload(x) ==
    /\ keys.pc = "up" /\ ccall.pc = "idle"
    /\ ccall' = Ccall("decrypt_payload", x, x.cause,
                      CryptoService_decrypt_payload(b64encode(x.ct), x.key,
                                                    b64encode(x.iv), b64encode(x.tag)))
    /\ UNCHANGED <<now, ticks, nonceVars, call, lastAccept, pipeVars, vt, fieldVars, keys>>

\* crypto_service.encrypt_payload(data, aes_key); os.urandom draws the IV
EncryptPayload(data, aes_key, iv) ==
    /\ keys.pc = "up" /\ ccall.pc = "idle"
    /\ ccall' = Ccall("encrypt_payload", [data |-> data, key |-> aes_key], "none",
                      CryptoService_encrypt_payload(data, aes_key, iv))
    /\ UNCHANGED <<now, ticks, nonceVars, call, lastAccept, pipeVars, vt, fieldVars, keys>>

\* crypto_service.decrypt_payload applied to what encrypt_payload returned,
\* with the same key; arg stays the data and the key
DecryptEncrypted ==
    /\ ccall.pc = "done" /\ ccall.op = "encrypt_payload" /\ ccall.raised = "none"
    /\ LET e == ccall.value[1]
       IN  ccall' = Ccall("payload_roundtrip", ccall.arg, "none",
                          CryptoService_decrypt_payload(e.encrypted_data, ccall.arg.key,
                                                        e.iv, e.auth_tag))
    /\ UNCHANGED <<now, ticks, nonceVars, call, lastAccept, pipeVars, vt, fieldVars, keys>>

\* the caller has consumed what the call gave back
CryptoDone ==
    /\ ccall.pc = "done"
    /\ ccall' = NoCcall
    /\ UNCHANGED <<now, ticks, nonceVars, call, lastAccept, pipeVars, vt, fieldVars, keys>>

\* ---------------------------------------------------------------- initial
NoVt == [done |-> FALSE, timestamp |-> 0, max_age |-> 0, result |-> FALSE]

InitCommon ==
    /\ ticks = 0
    /\ redisStore = [n \in Nonces |-> 0]
    /\ fallbackStore = {}
    /\ fallbackOthers = 0
    /\ call = [c \in Callers |-> IdleCall]
    /\ lastAccept = [s \in Stores |-> [n \in Nonces |-> NoTime]]
    /\ cur = NoRequest
    /\ accepted = NoAccept
    /\ vt = NoVt

\* no call on the field cipher or on a row
IdleField ==
    /\ fernet = 1
    /\ topic = NewTopic
    /\ fcall = NoFcall

\* no CryptoService under observation
IdleCrypto ==
    /\ keys = NoKeys
    /\ ccall = NoCcall

\* the settings of the parts a specification leaves alone
InitRest ==
    /\ InitCommon
    /\ now = 0
    /\ redis = FALSE
    /\ redisUp = FALSE
    /\ ENCRYPTION_REQUIRED = FALSE
    /\ ENCRYPTION_REQUIRED_ENDPOINTS = ShippedRequiredEndpoints

\* NonceManager(redis_client=None) or with a client injected (main.py)
InitNonce ==
    /\ InitCommon
    /\ IdleField /\ IdleCrypto
    /\ now = 0
    /\ redis \in BOOLEAN
    /\ redisUp = redis
    /\ ENCRYPTION_REQUIRED = FALSE
    /\ ENCRYPTION_REQUIRED_ENDPOINTS = ShippedRequiredEndpoints

\* the middleware as main.py installs it: the shared store's client is
\* injected; the two module settings are read once
Init ==
    /\ InitCommon
    /\ IdleField /\ IdleCrypto
    /\ now = 0
    /\ redis = TRUE
    /\ redisUp = TRUE
    /\ ENCRYPTION_REQUIRED \in BOOLEAN
    /\ ENCRYPTION_REQUIRED_ENDPOINTS \in {ShippedRequiredEndpoints, NamedRequiredEndpoints}

PipeTickSteps == {120, 180}

Next ==
    \/ \E d \in PipeTickSteps : Tick(d)
    \/ RedisFail
    \/ RedisRecover
    \/ \E r \in Requests : Dispatch(r)
    \/ \E h \in HandlerResponses, a \in ResponseAttrs : HandlerReturn(h, a)
    \/ Deliver

Spec == Init /\ [][Next]_vars

NonceTickSteps == {1, 299}

\* ------------------------------------------------- validate_timestamp alone
TsClock == (0..TsRange) \cup (MAX_AGE..(MAX_AGE + TsRange))
TsTimestamps == (0 - 1)..(TsRange + 1)
TsMaxAges == {0 - 1, 0, 1, TsRange, MAX_AGE}

InitTs ==
    /\ InitCommon
    /\ IdleField /\ IdleCrypto
    /\ now \in TsClock
    /\ redis = FALSE
    /\ redisUp = FALSE
    /\ ENCRYPTION_REQUIRED = FALSE
    /\ ENCRYPTION_REQUIRED_ENDPOINTS = ShippedRequiredEndpoints

\* one call of validate_timestamp(timestamp, max_age)
Validate(timestamp, max_age) ==
    /\ ~vt.done
    /\ vt' = [done |-> TRUE, timestamp |-> timestamp, max_age |-> max_age,
              result |-> validate_timestamp(timestamp, max_age, now)]
    /\ UNCHANGED <<now, ticks, nonceVars, call, lastAccept, pipeVars, fieldVars, cryptoVars>>

\* the caller has consumed the answer
ValidateDone ==
    /\ vt.done
    /\ vt' = NoVt
    /\ UNCHANGED <<now, ticks, nonceVars, call, lastAccept, pipeVars, fieldVars, cryptoVars>>

NextTs ==
    \/ \E timestamp \in TsTimestamps, max_age \in TsMaxAges : Validate(timestamp, max_age)
    \/ ValidateDone

SpecTs == InitTs /\ [][NextTs]_vars

\* ---------------------------------------------------- the field cipher
InitField ==
    /\ InitRest /\ IdleCrypto
    /\ fernet \in FieldKeys
    /\ topic = NewTopic
    /\ fcall = NoFcall

NextField ==
    \/ \E x \in Plaintexts, iv \in FernetIVs : Encrypt(x, iv)
    \/ \E x \in EncryptedTexts : Decrypt(x)
    \/ DecryptReturned
    \/ \E k \in 0..NumFieldKeys, set \in BOOLEAN,
          env \in {"production", "development", "unset"}, generated \in FieldKeys :
            /\ (~set => k = 0)
            /\ InitializeKey([set |-> set, key |-> k], env, generated)
    \/ FieldDone

SpecField == InitField /\ [][NextField]_vars

\* a row of topics: new, or written before the encrypted column existed
InitTopic ==
    /\ InitRest /\ IdleCrypto
    /\ fernet \in FieldKeys
    /\ topic \in {[NewTopic EXCEPT !.mentor_narrative = x] : x \in Plaintexts}
    /\ fcall = NoFcall

NextTopic ==
    \/ \E n \in Plaintexts, iv \in FernetIVs : SetNarrative(n, iv)
    \/ GetNarrative
    \/ \E iv \in FernetIVs : Migrate(iv)
    \/ \E k \in FieldKeys : Restart(k)
    \/ FieldDone

SpecTopic == InitTopic /\ [][NextTopic]_vars

\* -------------------------------------------------------- CryptoService
InitCrypto ==
    /\ InitRest /\ IdleField /\ IdleCrypto

NextCrypto ==
    \/ \E pem \in PEMs, env \in {"production", "development"} : InitializeKeys(pem, env)
    \/ \E x \in WrappedKeys(keys.private_key) : DecryptAesKey(x)
    \/ \E r \in SigRequests : \E x \in Signatures(r) : VerifySignature(r, x)
    \/ \E x \in SealedMessages : DecryptPayload(x)
    \/ \E data \in {"dict_a_1", "list_1", "dict_a_e9", "dict_1_2"},
          aes_key \in {AesKey(AES_KEY_SIZE), Rep(AES_KEY_SIZE, 166), AesKey(16), AesKey(31)},
          iv \in {Rep(AES_IV_SIZE, 17), Rep(AES_IV_SIZE, 200)} :
            EncryptPayload(data, aes_key, iv)
    \/ DecryptEncrypted
    \/ CryptoDone

SpecCrypto == InitCrypto /\ [][NextCrypto]_vars

NextNonce ==
    \/ \E d \in NonceTickSteps : Tick(d)
    \/ RedisFail
    \/ RedisRecover
    \/ FallbackFill
    \/ \E c \in Callers, n \in Nonces : Call(c, n)
    \/ \E c \in Callers : Exec(c)
    \/ \E c \in Callers : Return(c)

SpecNonce == InitNonce /\ [][NextNonce]_vars

\* SpecStore: SpecNonce with the two other writers of the stores
NextStore ==
    \/ NextNonce
    \/ \E n \in Nonces \cup {"other"} : StoreNonce(n)
    \/ CleanupExpired

SpecStore == InitNonce /\ [][NextStore]_vars

\* ------------------------------------------------------- claims C1 and C2
Returned(c) == call[c].pc = "returned"

\* C1: a nonce of length >= 10 is answered true at most once within its TTL
\* window, whichever store served the calls: a call that returns true was not
\* preceded, less than TTL seconds earlier, by an accepted call for that nonce.
C1_SingleUseAcrossStores ==
    \A c \in Callers :
        (Returned(c) /\ call[c].result) => (~call[c].dupRedis /\ ~call[c].dupFallback)

\* C2: with the shared store reachable, verify_nonce answers true iff no call
\* for that nonce was accepted by the shared store within the last TTL seconds:
\* of the calls racing on one nonce exactly one is accepted.
C2_AtomicSetIfAbsent ==
    \A c \in Callers :
        (Returned(c) /\ call[c].via = "redis") => (call[c].result <=> ~call[c].dupRedis)

\* two handlers held the same nonce at the same time, both were served by the
\* shared store, one was accepted and the other rejected
C2_Witness ==
    \E c1, c2 \in Callers :
        /\ c1 # c2 /\ Returned(c1) /\ Returned(c2)
        /\ call[c1].conc /\ call[c2].conc
        /\ call[c1].nonce = GoodNonce /\ call[c2].nonce = GoodNonce
        /\ call[c1].via = "redis" /\ call[c2].via = "redis"
        /\ call[c1].result /\ ~call[c2].result

\* ------------------------------------------------------ claims C3 to C10
IsPrefix(a, b) == Len(a) <= Len(b) /\ SubSeq(b, 1, Len(a)) = a

\* the paths of Paths that match an entry of EXEMPT_ENDPOINTS
ExemptRequested == {P_healthz, P_login}

InFlight == cur.pc # "none"
Declared == InFlight /\ cur.req.hdr = "true" /\ cur.req.path \notin ExemptRequested
PlainMutating ==
    /\ InFlight /\ cur.req.hdr # "true" /\ cur.req.path \notin ExemptRequested
    /\ cur.req.method \in {"POST", "PUT", "PATCH"}

\* the order of the pipeline steps for body b
PipelineOrder(b) ==
    <<"parse", "validate_timestamp", "verify_nonce">>
    \o (IF b.signature \notin {"none", "empty"} THEN <<"verify_signature">> ELSE <<>>)
    \o <<"decrypt_aes_key", "decrypt_payload", "strip_meta">>

\* body b cannot pass the step (a replayed nonce is not visible in b)
Defect(b, step) ==
    CASE step = "parse"              -> b.shape # "ok"
      [] step = "validate_timestamp" -> now - b.timestamp < 0 \/ now - b.timestamp > MAX_AGE
      [] step = "verify_nonce"       -> b.nonce = ShortNonce
      [] step = "verify_signature"   -> b.signature = "bad"
      [] step = "decrypt_aes_key"    -> b.key = "bad"
      [] step = "decrypt_payload"    -> b.payload \in {"badtag", "nonjson"}
      [] OTHER                       -> FALSE

\* C3: for a declared-encrypted request on a non-exempt path the steps run in
\* the order parse/field check, validate_timestamp, verify_nonce, signature
\* (only if present), decrypt_key, decrypt payload, strip _meta; every step
\* before the last one run was passed by the envelope, and a failing step is
\* the last one run and the request is not forwarded.
C3_PipelineOrder ==
    Declared =>
        LET b == cur.req.body
            tr == cur.trace
        IN  /\ Len(tr) >= 1
            /\ IsPrefix(tr, PipelineOrder(b))
            /\ \A i \in 1..Len(tr) :
                  (i < Len(tr) \/ cur.failed = "none") => ~Defect(b, tr[i])
            /\ cur.failed # "none" =>
                  /\ tr[Len(tr)] = cur.failed
                  /\ cur.failed # "verify_nonce" => Defect(b, cur.failed)
                  /\ ~cur.forwarded /\ ~cur.decrypted /\ cur.pc = "responded"
            /\ cur.failed = "none" => tr = PipelineOrder(b)

\* an envelope with a wrong signature and a wrong key stops at the signature
C3_Witness ==
    /\ Declared
    /\ cur.req.body.signature = "bad" /\ cur.req.body.key = "bad"
    /\ cur.failed = "verify_signature"
    /\ cur.trace = <<"parse", "validate_timestamp", "verify_nonce", "verify_signature">>
    /\ ~cur.forwarded

\* C4: with the kill-switch on, a POST, PUT or PATCH without the header to a
\* non-exempt path is rejected and not forwarded.
C4_KillSwitchRejectsPlain ==
    (PlainMutating /\ ENCRYPTION_REQUIRED) => (~cur.forwarded /\ cur.resp.status = 403)

\* C5: a POST, PUT or PATCH without the header to a path flagged
\* encryption-required is answered 403 with error code ENCRYPTION_REQUIRED and
\* is not forwarded.
C5_RequiredPathRejectsPlain ==
    (/\ PlainMutating
     /\ cur.req.path = P_mentor
     /\ ENCRYPTION_REQUIRED_ENDPOINTS = NamedRequiredEndpoints)
    => /\ cur.pc = "responded"
       /\ ~cur.forwarded
       /\ cur.resp.status = 403
       /\ cur.resp.error_code = "ENCRYPTION_REQUIRED"

C5_Witness ==
    /\ PlainMutating
    /\ cur.req.path = P_mentor /\ cur.req.method = "PATCH"
    /\ ENCRYPTION_REQUIRED_ENDPOINTS = NamedRequiredEndpoints
    /\ cur.resp.error_code = "ENCRYPTION_REQUIRED"

\* C6: whatever step of the pipeline fails, the client receives one and the
\* same response: status 400 with the same body.
C6_UniformFailure ==
    (Declared /\ cur.failed # "none") =>
        cur.resp = Resp(400, "Request decryption failed", "none")

\* a GCM tag failure, reported as any other failure
C6_Witness ==
    /\ Declared
    /\ cur.failed = "decrypt_payload" /\ cur.req.body.payload = "badtag"
    /\ cur.resp.status = 400

\* C7: an envelope the pipeline accepted is rejected whenever it is presented
\* again, at any later time.
C7_NoSecondAcceptance ==
    (InFlight /\ cur.replay # "no") => ~cur.decrypted

C9_ExemptBypass ==
    /\ [](InFlight /\ cur.req.path \in ExemptRequested =>
            /\ cur.forwarded /\ cur.exempt
            /\ cur.trace = <<>> /\ cur.via = "none" /\ ~cur.decrypted
            /\ cur.state = {"unset"}
            /\ ~cur.encrypted
            /\ cur.resp.status \in {0, 200})
    /\ [][(cur.pc = "none" /\ cur'.pc # "none" /\ cur'.req.path \in ExemptRequested)
            => UNCHANGED <<redisStore, fallbackStore, fallbackOthers>>]_vars

\* a declared-encrypted POST with a valid envelope to a path that matches an
\* exempt prefix, with the kill-switch on
C9_Witness ==
    /\ InFlight /\ cur.req.path = P_healthz
    /\ cur.req.hdr = "true" /\ cur.req.body = ValidEnvelope
    /\ cur.req.method = "POST" /\ ENCRYPTION_REQUIRED
    /\ cur.pc = "responded" /\ cur.resp.status = 200
    /\ ~RedisLive(redisStore, GoodNonce, now) /\ fallbackStore = {}

\* C10: validate_timestamp(T, max_age) is true iff 0 <= now - T <= max_age.
C10_TimestampWindow ==
    vt.done => (vt.result <=> (0 <= now - vt.timestamp /\ now - vt.timestamp <= vt.max_age))

\* a timestamp exactly max_age = 120 seconds old is accepted
C10_Witness ==
    /\ vt.done /\ vt.result
    /\ vt.max_age = MAX_AGE /\ now - vt.timestamp = MAX_AGE

\* ----------------------------------------------------- claims C11 to C13
\* C11: an envelope whose timestamp is more than max_age = 120 s old is
\* rejected by the orchestrator at validate_timestamp, with 400 and without
\* being forwarded, whatever its nonce, signature, wrapped key and ciphertext.
C11_StaleTimestampRejected ==
    (Declared /\ cur.req.body.shape = "ok" /\ now - cur.req.body.timestamp > MAX_AGE) =>
        /\ cur.failed = "validate_timestamp"
        /\ ~cur.decrypted /\ ~cur.forwarded /\ cur.state = {"unset"}
        /\ cur.pc = "responded" /\ cur.resp.status = 400

\* the envelope of Scenario B, every part valid and its nonce never
\* recorded, presented 180 s or more after its timestamp
C11_Witness ==
    /\ Declared /\ cur.req.body = ValidEnvelope
    /\ now - cur.req.body.timestamp >= 180
    /\ redisUp /\ redisStore[GoodNonce] = 0 /\ fallbackStore = {}
    /\ cur.failed = "validate_timestamp" /\ cur.resp.status = 400

\* the envelopes of Scenario B: complete, signed, key and ciphertext intact,
\* the encrypted object with or without a top-level _meta entry
ScenarioB == {ValidEnvelope, [ValidEnvelope EXCEPT !.payload = "obj_meta"]}

\* C12: a complete envelope with a nonce of 10 characters not seen before,
\* timestamp = now, a valid signature, a correctly wrapped key and untampered
\* ciphertext yields the encrypted object without its _meta entry, and the
\* request is forwarded with that object as its decrypted data.
C12_ValidEnvelopeForwarded ==
    (Declared /\ cur.req.body \in ScenarioB /\ now = cur.req.body.timestamp
        /\ cur.failed # "verify_nonce") =>
        /\ cur.decrypted /\ cur.failed = "none"
        /\ cur.state = PayloadKeys(cur.req.body.payload) \ {"_meta"}
        /\ cur.forwarded

\* C13: a request to a path flagged encryption-required that the handler
\* answers with a JSON body gets the encrypted envelope (marked by the header
\* X-Encrypted-Response), under a key generated for that one response.
C13_JsonResponseEncrypted ==
    (cur.pc = "responded" /\ cur.forwarded /\ ~cur.exempt /\ cur.requires
        /\ cur.resp.status = 200 /\ cur.resp.detail = "json") =>
        (cur.encrypted /\ cur.key = "urandom")

\* ----------------------------------------------------- claims C14 and C15
\* C14: after set_mentor_narrative(n) the legacy plaintext column does not
\* hold n: the narrative is at rest only as the encrypted token.
C14_OnlyEncryptedAtRest ==
    (fcall.pc = "done" /\ fcall.op = "set" /\ fcall.raised = "none" /\ Truthy(fcall.arg)) =>
        /\ topic.encrypted_mentor_narrative.t = "token"
        /\ topic.mentor_narrative # fcall.arg

\* the encrypted column holds a token this cipher decrypts to text
Decryptable(e) == e.t = "token" /\ e.ok /\ e.k = fernet /\ utf8_decode(e.v).ok

C16_MalformedPemFails ==
    (keys.pc # "none" /\ keys.pem = "malformed") =>
        (keys.pc = "failed" /\ keys.raised # "none" /\ keys.private_key = "none")

\* C17: decrypt_aes_key fails with one and the same error (type ValueError,
\* message "Failed to decrypt AES key") whichever sub-step fails: base64
\* decoding, the ciphertext size, the OAEP padding, the length of the
\* unwrapped key; what it returns is a key of exactly 32 bytes.
C17_OneGenericKeyError ==
    (ccall.pc = "done" /\ ccall.op = "decrypt_aes_key") =>
        /\ ccall.cause # "none" => ccall.raised # "none"
        /\ ccall.raised # "none" =>
              (ccall.raised = "ValueError" /\ ccall.msg = "Failed to decrypt AES key"
                /\ ccall.value = <<>>)
        /\ ccall.raised = "none" => Len(ccall.value) = AES_KEY_SIZE

\* a key of 31 bytes, correctly wrapped for the installed key pair, is
\* refused with the generic error
C17_Witness ==
    /\ ccall.pc = "done" /\ ccall.op = "decrypt_aes_key"
    /\ ccall.cause = "keylen"
    /\ ccall.arg = b64encode(RSA_encrypt(keys.private_key, AesKey(31)))
    /\ ccall.raised = "ValueError" /\ ccall.msg = "Failed to decrypt AES key"

\* C18: decrypt_payload returns data only when the IV is 12 bytes, the tag
\* is 16 bytes and the tag verifies for the key, IV and ciphertext given;
\* with one byte of the ciphertext or of the tag changed, or an IV or tag of
\* another length, it raises ValueError and returns nothing.
C18_NoDataUnlessAuthentic ==
    (ccall.pc = "done" /\ ccall.op = "decrypt_payload") =>
        LET x == ccall.arg
        IN  /\ ccall.raised = "none" =>
                  /\ Len(x.iv) = AES_IV_SIZE /\ Len(x.tag) = AES_TAG_SIZE
                  /\ x.tag = GcmTag(x.key, x.iv, x.ct)
            /\ ccall.cause \in {"ciphertext", "tag", "ivsize", "tagsize"} =>
                  (ccall.raised = "ValueError" /\ ccall.value = <<>>)
            /\ ccall.raised \in {"none", "ValueError"}

\* a message sealed correctly under a 16-byte IV is refused, and so is the
\* message with the last byte of its tag changed
C18_Witness ==
    /\ ccall.pc = "done" /\ ccall.op = "decrypt_payload"
    /\ ccall.raised = "ValueError" /\ ccall.value = <<>>
    /\ ccall.cause = "ivsize" /\ Len(ccall.arg.iv) = 16
    /\ ccall.arg.tag = GcmTag(ccall.arg.key, ccall.arg.iv, ccall.arg.ct)

\* C19 as stated: verify_signature returns true exactly for the text that
\* is the base64 of the HMAC, and false for a text differing from it in one
\* bit; it never raises.
C19_TrueIffBase64OfHmac ==
    (ccall.pc = "done" /\ ccall.op = "verify_signature") =>
        /\ ccall.raised = "none"
        /\ ccall.value = <<ccall.arg.signature = Sign(ccall.arg.request)>>

\* C19 amended: verify_signature returns true exactly when the signature,
\* decoded as b64decode decodes it, is the 32 bytes of the HMAC: for the
\* base64 of the HMAC and for that text with a stray character or with an
\* unused low bit of its last digit set; it returns false, without raising,
\* when a data bit is inverted, when the text is cut, empty or not
\* decodable, and for the signature of a request that differs in any part.
C19_TrueIffDecodesToHmac ==
    (ccall.pc = "done" /\ ccall.op = "verify_signature") =>
        /\ ccall.raised = "none"
        /\ ccall.value = <<ccall.cause \in {"exact", "lowbits", "stray"}>>

\* the signature with one unused bit of its last digit set is accepted
C19_Witness ==
    /\ ccall.pc = "done" /\ ccall.op = "verify_signature"
    /\ ccall.cause = "lowbits"
    /\ ccall.arg.signature # Sign(ccall.arg.request)
    /\ ccall.value = <<TRUE>>

\* a string that is a token the installed key opens
ValidToken(x) == x.t = "token" /\ x.ok /\ x.k = fernet

\* C20 as stated: encrypt(None) is None; decrypt(encrypt(X)) is X for every
\* non-empty string X; decrypt of any string that is not a valid token of
\* the current key raises the decryption error.
C20_RoundTripEveryString ==
    fcall.pc = "done" =>
        /\ (fcall.op = "encrypt" /\ fcall.arg = None) =>
              (fcall.raised = "none" /\ fcall.value = None)
        /\ (fcall.op = "encrypt" /\ fcall.arg.t = "str" /\ fcall.arg # EmptyStr) =>
              fcall.raised = "none"
        /\ (fcall.op = "roundtrip" /\ fcall.arg.t = "str" /\ fcall.arg # EmptyStr) =>
              (fcall.raised = "none" /\ fcall.value = fcall.arg)
        /\ (fcall.op = "decrypt" /\ fcall.arg # None /\ ~ValidToken(fcall.arg)) =>
              fcall.raised = "ValueError"

\* C20, amended: encrypt(None) and encrypt("") are None; for every non-empty
\* string X without a lone surrogate decrypt(encrypt(X)) is X, and encrypt of
\* a string with a lone surrogate raises UnicodeEncodeError; decrypt(None)
\* and decrypt("") are None; decrypt of a non-empty string that is not a
\* valid token of the current key raises (ValueError, or UnicodeEncodeError
\* for text with a lone surrogate) and gives no value.
C20_RoundTripEncodableString ==
    fcall.pc = "done" =>
        /\ (fcall.op = "encrypt" /\ fcall.arg \in {None, EmptyStr}) =>
              (fcall.raised = "none" /\ fcall.value = None)
        /\ (fcall.op = "encrypt" /\ fcall.arg.t = "str" /\ fcall.arg # EmptyStr) =>
              IF CanEncode(fcall.arg.v)
              THEN fcall.raised = "none" /\ ValidToken(fcall.value)
              ELSE fcall.raised = "UnicodeEncodeError"
        /\ (fcall.op = "roundtrip" /\ fcall.arg.t = "str" /\ fcall.arg # EmptyStr) =>
              (fcall.raised = "none" /\ fcall.value = fcall.arg)
        /\ (fcall.op = "decrypt" /\ fcall.arg \in {None, EmptyStr}) =>
              (fcall.raised = "none" /\ fcall.value = None)
        /\ (fcall.op = "decrypt" /\ fcall.arg \notin {None, EmptyStr}
                /\ ~ValidToken(fcall.arg)) =>
              /\ fcall.raised \in {"ValueError", "UnicodeEncodeError"}
              /\ fcall.raised = "UnicodeEncodeError" =>
                    (fcall.arg.t = "str" /\ ~CanEncode(fcall.arg.v))
              /\ fcall.value = None

\* a two-character string with a non-ASCII character came back from
\* decrypt(encrypt(X)) unchanged
C20_Witness ==
    /\ fcall.pc = "done" /\ fcall.op = "roundtrip"
    /\ fcall.arg = Str(<<233, 97>>)
    /\ fcall.raised = "none" /\ fcall.value = fcall.arg

\* C21: for every JSON payload P and every 32-byte key K, decrypt_payload
\* applied with K to what encrypt_payload(P, K) returned gives back P.
C21_PayloadRoundTrip ==
    (ccall.pc = "done" /\ ccall.op \in {"encrypt_payload", "payload_roundtrip"}
        /\ ccall.arg.data \in {"dict_a_1", "list_1", "dict_a_e9"}
        /\ Len(ccall.arg.key) = AES_KEY_SIZE) =>
        /\ ccall.raised = "none"
        /\ ccall.op = "payload_roundtrip" => ccall.value = <<ccall.arg.data>>

\* the payload with a non-ASCII string came back under a 32-byte key
C21_Witness ==
    /\ ccall.pc = "done" /\ ccall.op = "payload_roundtrip"
    /\ ccall.arg.data = "dict_a_e9" /\ ccall.arg.key = Rep(AES_KEY_SIZE, 166)
    /\ ccall.raised = "none" /\ ccall.value = <<"dict_a_e9">>

C23_SeenUntilExpiry ==
    \A c \in Callers :
        (Returned(c) /\ call[c].via \in Stores) =>
            (call[c].result <=>
                ~(IF call[c].via = "redis" THEN call[c].dupRedis ELSE call[c].dupFallback))

\* C24: when the command on the shared store raises, the same call of
\* verify_nonce is decided by the in-memory map: it returns true iff the
\* nonce is not in the map, and puts it there (the insertion that takes the
\* map above its limit empties it); the shared store is left as it was.
C24_StoreFailureFallsBack ==
    [][\A c \in Callers :
        (call[c].pc = "called" /\ call'[c].pc = "returned"
            /\ redis /\ ~redisUp /\ call[c].nonce = GoodNonce) =>
          LET n == call[c].nonce
          IN  /\ call'[c].via = "fallback"
              /\ call'[c].result <=> n \notin fallbackStore
              /\ \/ n \in fallbackStore'
                 \/ /\ FallbackLen(fallbackStore \cup {n}, fallbackOthers) > MAX_FALLBACK
                    /\ fallbackStore' = {} /\ fallbackOthers' = 0
              /\ redisStore' = redisStore]_vars

\* a nonce was accepted by the in-memory map while the injected shared
\* store was unreachable
C24_Witness ==
    \E c \in Callers :
        /\ Returned(c) /\ call[c].nonce = GoodNonce
        /\ redis /\ ~redisUp
        /\ call[c].via = "fallback" /\ call[c].result
        /\ GoodNonce \in fallbackStore

\* C25: whenever a call has returned, the in-memory map holds at most 10000
\* entries.
C25_FallbackBounded ==
    FallbackLen(fallbackStore, fallbackOthers) <= MAX_FALLBACK

\* C26: a declared-encrypted request that the pipeline decrypted is
\* forwarded with its decrypted data attached, for every method, every
\* non-exempt path and either value of ENCRYPTION_REQUIRED.
C26_DecryptedAlwaysForwarded ==
    (Declared /\ cur.decrypted) =>
        (cur.forwarded /\ cur.state # {"unset"} /\ cur.resp.status \in {0, 200})

\* C27: a nonce that verify_nonce accepted stays recorded when the same
\* request is then rejected at the signature, at decrypt_aes_key or at
\* decrypt_payload, and an envelope that carries a recorded nonce is not
\* accepted again within the TTL.
C27_NonceStaysRecorded ==
    [][(cur.pc = "none" /\ cur'.pc # "none" /\ cur'.req.hdr = "true" /\ ~cur'.exempt) =>
        LET n == cur'.req.body.nonce
        IN  /\ cur'.failed \in {"verify_signature", "decrypt_aes_key", "decrypt_payload"} =>
                  IF cur'.via = "redis" THEN RedisLive(redisStore', n, now')
                  ELSE n \in fallbackStore'
            /\ (cur'.req.body.shape = "ok"
                    /\ (RedisLive(redisStore, n, now) \/ n \in fallbackStore)) =>
                  ~cur'.decrypted]_vars

\* C28: a declared-encrypted request rejected at parsing or at
\* validate_timestamp leaves both nonce stores as they were and is not
\* forwarded; if its nonce was not recorded before, a well-formed envelope
\* with that nonce and a fresh timestamp is accepted right after.
C28_EarlyRejectionKeepsNonce ==
    [][(cur.pc = "none" /\ cur'.pc # "none" /\ cur'.req.hdr = "true" /\ ~cur'.exempt
            /\ cur'.failed \in {"parse", "validate_timestamp"}) =>
        LET n == cur'.req.body.nonce
        IN  /\ UNCHANGED <<redisStore, fallbackStore, fallbackOthers>>
            /\ ~cur'.forwarded /\ ~cur'.decrypted /\ cur'.via = "none"
            /\ (n = GoodNonce /\ ~RedisLive(redisStore, n, now) /\ n \notin fallbackStore) =>
                  (decrypt_request([ValidEnvelope EXCEPT !.timestamp = now]).ok)'
       ]_vars

\* an envelope with a missing field was rejected while its nonce was in
\* neither store
C28_Witness ==
    /\ Declared /\ cur.req.body.nonce = GoodNonce
    /\ cur.req.body.shape = "missing" /\ cur.failed = "parse"
    /\ cur.pc = "responded" /\ cur.resp.status = 400
    /\ redisUp /\ redisStore[GoodNonce] = 0 /\ fallbackStore = {}

\* C29 as stated: an envelope with a present but wrong signature is rejected
\* at the signature, before decrypt_aes_key runs; an otherwise valid
\* envelope with the signature omitted or empty runs no signature step and
\* is decrypted and forwarded.
C29_SignatureOnlyIfPresent ==
    (Declared /\ cur.req.body.shape = "ok"
        /\ cur.failed \notin {"validate_timestamp", "verify_nonce"}) =>
        LET b == cur.req.body
        IN  /\ b.signature = "bad" =>
                  /\ cur.failed = "verify_signature" /\ ~cur.decrypted /\ ~cur.forwarded
                  /\ cur.trace[Len(cur.trace)] = "verify_signature"
            /\ (b.signature \in {"none", "empty"} /\ b.key = "ok"
                    /\ b.payload \in {"obj", "obj_meta"}) =>
                  /\ \A i \in 1..Len(cur.trace) : cur.trace[i] # "verify_signature"
                  /\ cur.decrypted /\ cur.forwarded

====
